---- MODULE Spec2Model ----
(***************************************************************************)
(* A model of the hand-written parser of ShivyC (src/parser.py): the       *)
(* recursive-descent statement/declaration parser, the shift-reduce        *)
(* expression parser and the best-error tracker.                           *)
(*                                                                         *)
(* Indices are 0-based as in the Python source; a TLA+ sequence is         *)
(* 1-based, so tokens[i] of the source is TokAt(toks, i) == toks[i + 1].   *)
(***************************************************************************)
EXTENDS Integers, Sequences, FiniteSets, TLC

VARIABLES
    tokens,           \* Parser.tokens
    pc,               \* position of the running operation
    index,            \* the index argument of the running parse_* function
    i,                \* parse_expression: next token to shift
    stack,            \* parse_expression: the parse stack of StackItems
    nodes,            \* parse_compound_statement: the items read so far
    best_error,       \* Parser.best_error
    error_collector,  \* the diagnostics added to the sink, in order
    result,           \* what the running operation returned or raised
    raised,           \* history: every ParserError raised, in order
    logged            \* history: every error passed to _log_error, in order

vars == <<tokens, pc, index, i, stack, nodes, best_error, error_collector,
          result, raised, logged>>

(***************************************************************************)
(* Bounds of the model.                                                    *)
(***************************************************************************)
MaxAnyLen == 3
MaxOps == 3
MaxArgs == 3
MaxItems == 2
MaxDamagedItems == 1
MaxAmount == 2
MaxLogged == 3
MaxStars == 2

(***************************************************************************)
(* Tokens.                                                                 *)
(***************************************************************************)
Token(kind, content) == [kind |-> kind, content |-> content]

Punct(kind) == Token(kind, "")

TokAt(toks, k) == toks[k + 1]

IsToken(x) == "kind" \in DOMAIN x

IsNode(x) == "node" \in DOMAIN x

(***************************************************************************)
(* Sequencing.  Bind(v, F) is F applied to the value of v, with v          *)
(* evaluated once: a local variable assignment followed by the rest of     *)
(* the function body.                                                      *)
(***************************************************************************)
Bind(v, F(_)) == CHOOSE y \in {F(w) : w \in {v}} : TRUE

(***************************************************************************)
(* AST nodes (module tree).                                                *)
(***************************************************************************)
NumberNode(tok) == [node |-> "Number", tok |-> tok]

IdentifierNode(tok) == [node |-> "Identifier", tok |-> tok]

BinaryOperatorNode(left, op, right) ==
    [node |-> "BinaryOperator", left |-> left, op |-> op, right |-> right]

AddrOfNode(expr, op) == [node |-> "AddrOf", expr |-> expr, op |-> op]

DerefNode(expr, op) == [node |-> "Deref", expr |-> expr, op |-> op]

FunctionCallNode(func, args) ==
    [node |-> "FunctionCall", func |-> func, args |-> args]

ParenExprNode(expr) == [node |-> "ParenExpr", expr |-> expr]

(***************************************************************************)
(* Errors (module errors).                                                 *)
(***************************************************************************)
None == [none |-> TRUE]

ParserError(message, idx, kind) ==
    [message |-> message, index |-> idx, kind |-> kind, amount_parsed |-> idx]

(***************************************************************************)
(* parse_expression: tables.                                               *)
(***************************************************************************)
binary_operators ==
    [plus |-> 11, star |-> 12, slash |-> 12,
     twoequals |-> 8, notequal |-> 8, equals |-> 1]

unary_prefix_operators == {"amp", "star"}

UnaryNode(kind, expr, op) ==
    IF kind = "amp" THEN AddrOfNode(expr, op) ELSE DerefNode(expr, op)

assignment_operators == {"equals"}

StackItem(item, length) == [item |-> item, length |-> length]

\* stack[k] of the source for a negative k: the k-th item from the top.
InRange(stk, k) == -Len(stk) <= k /\ k < 0

At(stk, k) == stk[Len(stk) + 1 + k]

\* Mutant: the arguments stay in the order they were collected.
NotReversed(s) == s

Reverse(s) == [p \in 1..Len(s) |-> s[Len(s) + 1 - p]]

IsTok(x, kind) == IsToken(x.item) /\ x.item.kind = kind

(***************************************************************************)
(* match_function_call.  The source's loop catches KeyError, which list    *)
(* indexing never raises: an index below the bottom of the stack raises    *)
(* IndexError, and that leaves the function.                               *)
(***************************************************************************)
NoMatch == [status |-> "None"]

IndexErrorRaised == [status |-> "IndexError"]

Match(func, args) == [status |-> "match", func |-> func, args |-> args]

RECURSIVE MatchArgs(_, _, _)
MatchArgs(stk, k, args) ==
    IF ~InRange(stk, k) THEN IndexErrorRaised
    ELSE IF ~IsNode(At(stk, k).item) THEN NoMatch
    ELSE LET args2 == Append(args, At(stk, k))
             k2 == k - 1
         IN  IF ~InRange(stk, k2) THEN IndexErrorRaised
             ELSE IF IsTok(At(stk, k2), "comma")
                  THEN MatchArgs(stk, k2 - 1, args2)
             ELSE IF IsTok(At(stk, k2), "open_paren")
                  THEN IF ~InRange(stk, k2 - 1) THEN IndexErrorRaised
                       ELSE IF IsNode(At(stk, k2 - 1).item)
                            THEN Match(At(stk, k2 - 1), Reverse(args2))
                            ELSE NoMatch
             ELSE NoMatch

match_function_call(stk) ==
    IF Len(stk) < 3 THEN NoMatch
    ELSE IF ~IsTok(At(stk, -1), "close_paren") THEN NoMatch
    ELSE IF IsTok(At(stk, -2), "open_paren") /\ IsNode(At(stk, -3).item)
         THEN Match(At(stk, -3), <<>>)
    ELSE MatchArgs(stk, -2, <<>>)

(***************************************************************************)
(* parse_expression: the conditions of the if/elif chain.                  *)
(***************************************************************************)
NumberCond(stk) == Len(stk) > 0 /\ IsTok(At(stk, -1), "number")

IdentifierCond(stk) == Len(stk) > 0 /\ IsTok(At(stk, -1), "identifier")

NextIs(toks, k, kind) == k < Len(toks) /\ TokAt(toks, k).kind = kind

\* Mutant: an operator of equal precedence defers the reduction too.
HigherOrEqualPrecedenceNext(toks, k, opkind) ==
    /\ k < Len(toks)
    /\ TokAt(toks, k).kind \in DOMAIN binary_operators
    /\ binary_operators[TokAt(toks, k).kind] >= binary_operators[opkind]

HigherPrecedenceNext(toks, k, opkind) ==
    /\ k < Len(toks)
    /\ TokAt(toks, k).kind \in DOMAIN binary_operators
    /\ binary_operators[TokAt(toks, k).kind] > binary_operators[opkind]

\* Mutant: assignment is treated as left-associative.
NeverBothAssignment(toks, k, opkind) == FALSE

BothAssignment(toks, k, opkind) ==
    /\ k < Len(toks)
    /\ opkind \in assignment_operators
    /\ TokAt(toks, k).kind \in assignment_operators

BinaryCond(toks, stk, k) ==
    /\ Len(stk) >= 3
    /\ IsNode(At(stk, -1).item)
    /\ IsToken(At(stk, -2).item)
    /\ At(stk, -2).item.kind \in DOMAIN binary_operators
    /\ IsNode(At(stk, -3).item)
    /\ ~HigherPrecedenceNext(toks, k, At(stk, -2).item.kind)
    /\ ~NextIs(toks, k, "open_paren")
    /\ ~BothAssignment(toks, k, At(stk, -2).item.kind)

\* Mutant: the unary reduce does not wait for a call.
UnaryCondEager(toks, stk, k) ==
    /\ Len(stk) >= 2
    /\ IsNode(At(stk, -1).item)
    /\ IsToken(At(stk, -2).item)
    /\ At(stk, -2).item.kind \in unary_prefix_operators

UnaryCond(toks, stk, k) ==
    /\ Len(stk) >= 2
    /\ IsNode(At(stk, -1).item)
    /\ IsToken(At(stk, -2).item)
    /\ At(stk, -2).item.kind \in unary_prefix_operators
    /\ ~NextIs(toks, k, "open_paren")

ParenCond(stk) ==
    /\ Len(stk) >= 3
    /\ IsTok(At(stk, -1), "close_paren")
    /\ IsNode(At(stk, -2).item)
    /\ IsTok(At(stk, -3), "open_paren")

ShiftKinds ==
    {"number", "identifier", "open_paren", "close_paren", "comma", "amp"}
        \cup DOMAIN binary_operators

StopCond(toks, k) ==
    \/ k = Len(toks)
    \/ TokAt(toks, k).kind \notin ShiftKinds

\* The branch of the if/elif chain that one loop iteration takes.
CallRule(toks, stk, k, m) ==
    IF m.status = "IndexError" THEN "IndexError"
    ELSE IF m.status = "match" THEN "call"
    ELSE IF ParenCond(stk) THEN "paren"
    ELSE IF StopCond(toks, k) THEN "break"
    ELSE "shift"

Rule(toks, stk, k) ==
    IF NumberCond(stk) THEN "number"
    ELSE IF IdentifierCond(stk) THEN "identifier"
    ELSE IF BinaryCond(toks, stk, k) THEN "binary"
    ELSE IF UnaryCond(toks, stk, k) THEN "unary"
    ELSE Bind(match_function_call(stk), LAMBDA m : CallRule(toks, stk, k, m))

(***************************************************************************)
(* parse_expression: the reductions and the shift.                         *)
(***************************************************************************)
DropLast(stk, n) == SubSeq(stk, 1, Len(stk) - n)

ReduceNumberOn(stk) ==
    Append(DropLast(stk, 1), StackItem(NumberNode(At(stk, -1).item), 1))

ReduceIdentifierOn(stk) ==
    Append(DropLast(stk, 1), StackItem(IdentifierNode(At(stk, -1).item), 1))

ReduceBinaryOn(stk) ==
    LET left_expr == At(stk, -3)
        right_expr == At(stk, -1)
        operator == At(stk, -2)
    IN  Append(DropLast(stk, 3),
               StackItem(BinaryOperatorNode(left_expr.item, operator.item,
                                            right_expr.item),
                         left_expr.length + operator.length
                             + right_expr.length))

\* Mutant: the operator token is not counted in the length.
ReduceUnaryOnUncounted(stk) ==
    LET expr == At(stk, -1)
        op == At(stk, -2)
    IN  Append(DropLast(stk, 2),
               StackItem(UnaryNode(op.item.kind, expr.item, op.item),
                         expr.length))

ReduceUnaryOn(stk) ==
    LET expr == At(stk, -1)
        op == At(stk, -2)
    IN  Append(DropLast(stk, 2),
               StackItem(UnaryNode(op.item.kind, expr.item, op.item),
                         1 + expr.length))

RECURSIVE SumLengths(_)
SumLengths(s) ==
    IF Len(s) = 0 THEN 0 ELSE s[1].length + SumLengths(Tail(s))

\* stack[-n:] of the source: the whole stack when n exceeds its length.
LastN(stk, n) ==
    IF n >= Len(stk) THEN stk ELSE SubSeq(stk, Len(stk) - n + 1, Len(stk))

NumDelete(args) == IF Len(args) = 0 THEN 3 ELSE 2 + 2 * Len(args)

FunctionCallItem(stk, m) ==
    StackItem(FunctionCallNode(m.func.item,
                               [p \in 1..Len(m.args) |-> m.args[p].item]),
              SumLengths(LastN(stk, NumDelete(m.args))))

ReduceFunctionCallOn(stk) ==
    Bind(match_function_call(stk), LAMBDA m :
        Append(DropLast(stk, NumDelete(m.args)), FunctionCallItem(stk, m)))

ReduceParenOn(stk) ==
    LET expr == At(stk, -2)
    IN  Append(DropLast(stk, 3),
               StackItem(ParenExprNode(expr.item), expr.length + 2))

ShiftOn(toks, stk, k) == Append(stk, StackItem(TokAt(toks, k), 1))

\* The value parse_expression returns or the exception it raises once the
\* loop has stopped.
Ok(node, idx) == [status |-> "ok", node |-> node, index |-> idx]

Raise(err) == [status |-> "ParserError", err |-> err]

\* Mutant: the result is read off the top of the stack.
SelectResultTop(stk, idx) ==
    IF Len(stk) > 0 /\ IsNode(At(stk, -1).item)
    THEN Ok(At(stk, -1).item, idx + At(stk, -1).length)
    ELSE Raise(ParserError("expected expression", idx, "GOT"))

SelectResult(stk, idx) ==
    IF Len(stk) > 0 /\ IsNode(stk[1].item)
    THEN Ok(stk[1].item, idx + stk[1].length)
    ELSE Raise(ParserError("expected expression", idx, "GOT"))

(***************************************************************************)
(* parse_expression: one iteration of the loop, and the whole function.    *)
(***************************************************************************)
Apply(toks, stk, k, r) ==
    CASE r = "number" -> ReduceNumberOn(stk)
      [] r = "identifier" -> ReduceIdentifierOn(stk)
      [] r = "binary" -> ReduceBinaryOn(stk)
      [] r = "unary" -> ReduceUnaryOn(stk)
      [] r = "call" -> ReduceFunctionCallOn(stk)
      [] r = "paren" -> ReduceParenOn(stk)
      [] r = "shift" -> ShiftOn(toks, stk, k)
      [] OTHER -> stk

Step(toks, stk, k) ==
    Bind(Rule(toks, stk, k), LAMBDA r :
        [rule |-> r, stack |-> Apply(toks, stk, k, r),
         i |-> IF r = "shift" THEN k + 1 ELSE k])

RECURSIVE ExprLoop(_, _, _)
ExprLoop(toks, stk, k) ==
    Bind(Step(toks, stk, k), LAMBDA st :
        IF st.rule \in {"IndexError", "break"} THEN st
        ELSE ExprLoop(toks, st.stack, st.i))

parse_expression(toks, idx) ==
    Bind(ExprLoop(toks, <<>>, idx), LAMBDA e :
        IF e.rule = "IndexError" THEN IndexErrorRaised
        ELSE SelectResult(e.stack, idx))

(***************************************************************************)
(* The best-error tracker.  A parse_* function is modelled as an operator  *)
(* from (tokens, index, tracker) to its outcome; the tracker tr carries    *)
(* Parser.best_error through the call together with the two histories.     *)
(***************************************************************************)
\* Mutant: an error that ties with the best one does not replace it.
_log_error_strict(best, error) ==
    IF best = None \/ error.amount_parsed > best.amount_parsed
    THEN error
    ELSE best

_log_error(best, error) ==
    IF best = None \/ error.amount_parsed >= best.amount_parsed
    THEN error
    ELSE best

Tracker(best, rs, ls) == [best |-> best, raised |-> rs, logged |-> ls]

LogT(tr, error) ==
    [tr EXCEPT !.best = _log_error(@, error), !.logged = Append(@, error)]

OkT(node, idx, tr) ==
    [status |-> "ok", node |-> node, index |-> idx, tr |-> tr]

\* raise ParserError(...): the error enters the history where it is raised.
RaiseT(err, tr) ==
    [status |-> "ParserError", err |-> err,
     tr |-> [tr EXCEPT !.raised = Append(@, err)]]

IndexErrorT(tr) == [status |-> "IndexError", tr |-> tr]

\* A call whose exception is passed on to the caller: the rest of the
\* function body F runs on what the call returned.
Try(r, F(_)) ==
    CHOOSE y \in {IF w.status = "ok" THEN F(w) ELSE w : w \in {r}} : TRUE

\* try: return <call>  except ParserError as e: self._log_error(e);
\* the rest of the function body F runs with the tracker after the log.
Catch(r, F(_)) ==
    CHOOSE y \in {IF w.status = "ParserError"
                  THEN Bind(LogT(w.tr, w.err), F)
                  ELSE w : w \in {r}} : TRUE

(***************************************************************************)
(* _match_token, _next_token_is, _expect_semicolon, _expect_type_name.     *)
(***************************************************************************)
_next_token_is(toks, idx, kind) ==
    Len(toks) > idx /\ TokAt(toks, idx).kind = kind

\* Mutant: the error is anchored one token late.
_match_token_late(toks, idx, kind, message, message_type, tr) ==
    IF Len(toks) > idx /\ TokAt(toks, idx).kind = kind
    THEN OkT(None, idx + 1, tr)
    ELSE RaiseT(ParserError(message, idx + 1, message_type), tr)

_match_token(toks, idx, kind, message, message_type, tr) ==
    IF Len(toks) > idx /\ TokAt(toks, idx).kind = kind
    THEN OkT(None, idx + 1, tr)
    ELSE RaiseT(ParserError(message, idx, message_type), tr)

_expect_semicolon(toks, idx, tr) ==
    _match_token(toks, idx, "semicolon", "expected semicolon", "AFTER", tr)

\* The keys of type_tokens, in the order the dictionary lists them.
type_tokens ==
    <<"void_kw", "bool_kw", "char_kw", "short_kw", "int_kw", "long_kw">>

RECURSIVE ExpectTypeFrom(_, _, _, _)
ExpectTypeFrom(toks, idx, k, tr) ==
    IF k = Len(type_tokens)
    THEN _match_token(toks, idx, type_tokens[k], "expected type name",
                      "GOT", tr)
    ELSE Catch(_match_token(toks, idx, type_tokens[k],
                            "expected type name", "GOT", tr),
               LAMBDA tr1 : ExpectTypeFrom(toks, idx, k + 1, tr1))

_expect_type_name(toks, idx, tr) == ExpectTypeFrom(toks, idx, 1, tr)

(***************************************************************************)
(* C types (modules ctypes and il_gen) and the statement nodes.            *)
(***************************************************************************)
BaseCType(kind) == [ctype |-> kind, signed |-> TRUE]

to_unsigned(ctype) == [ctype EXCEPT !.signed = FALSE]

PointerCType(arg) == [ctype |-> "pointer", arg |-> arg]

ArrayCType(el, n) == [ctype |-> "array", el |-> el, n |-> n]

\* int() on the number literals the inputs use.
IntOf(content) ==
    CASE content = "0" -> 0
      [] content = "1" -> 1
      [] content = "2" -> 2
      [] content = "3" -> 3
      [] content = "4" -> 4
      [] content = "5" -> 5
      [] content = "05" -> 5
      [] content = "12" -> 12

MainNode(body) == [node |-> "Main", body |-> body]

CompoundNode(items) == [node |-> "Compound", items |-> items]

ReturnNode(expr, return_kw) ==
    [node |-> "Return", expr |-> expr, return_kw |-> return_kw]

IfStatementNode(conditional, statement) ==
    [node |-> "IfStatement", conditional |-> conditional,
     statement |-> statement]

ExprStatementNode(expr) == [node |-> "ExprStatement", expr |-> expr]

DeclarationNode(variable_name, ctype) ==
    [node |-> "Declaration", variable_name |-> variable_name,
     ctype |-> ctype]

(***************************************************************************)
(* parse_declaration.                                                      *)
(***************************************************************************)
RECURSIVE CountStars(_, _)
CountStars(toks, idx) ==
    IF _next_token_is(toks, idx, "star") THEN 1 + CountStars(toks, idx + 1)
    ELSE 0

\* Mutant: "if" for "while": at most one star wraps the type.
PointersOnce(ctype, k) == IF k = 0 THEN ctype ELSE PointerCType(ctype)

RECURSIVE Pointers(_, _)
Pointers(ctype, k) ==
    IF k = 0 THEN ctype ELSE Pointers(PointerCType(ctype), k - 1)

HasArraySuffix(toks, idx) ==
    /\ _next_token_is(toks, idx, "open_sq_brack")
    /\ _next_token_is(toks, idx + 1, "number")
    /\ _next_token_is(toks, idx + 2, "close_sq_brack")

Signed(toks, idx) == ~_next_token_is(toks, idx, "unsigned_kw")

AfterSign(toks, idx) ==
    IF _next_token_is(toks, idx, "signed_kw") THEN idx + 1
    ELSE IF _next_token_is(toks, idx, "unsigned_kw") THEN idx + 1
    ELSE idx

BaseOf(toks, idx, typeEnd) ==
    IF Signed(toks, idx) THEN BaseCType(TokAt(toks, typeEnd - 1).kind)
    ELSE to_unsigned(BaseCType(TokAt(toks, typeEnd - 1).kind))

DeclaredType(toks, idx, typeEnd, stars, nameEnd) ==
    IF HasArraySuffix(toks, nameEnd)
    THEN ArrayCType(Pointers(BaseOf(toks, idx, typeEnd), stars),
                    IntOf(TokAt(toks, nameEnd + 1).content))
    ELSE Pointers(BaseOf(toks, idx, typeEnd), stars)

\* Mutant: an opening bracket alone is taken for an array suffix.
AfterSuffixPartial(toks, nameEnd) ==
    IF _next_token_is(toks, nameEnd, "open_sq_brack") THEN nameEnd + 3
    ELSE nameEnd

AfterSuffix(toks, nameEnd) ==
    IF HasArraySuffix(toks, nameEnd) THEN nameEnd + 3 ELSE nameEnd

parse_declaration(toks, idx, tr) ==
    Try(_expect_type_name(toks, AfterSign(toks, idx), tr), LAMBDA t :
    Bind(CountStars(toks, t.index), LAMBDA stars :
    Try(_match_token(toks, t.index + stars, "identifier",
                     "expected identifier", "AFTER", t.tr), LAMBDA n :
    Try(_expect_semicolon(toks, AfterSuffix(toks, n.index), n.tr),
        LAMBDA semi :
    OkT(DeclarationNode(TokAt(toks, n.index - 1),
                        DeclaredType(toks, idx, t.index, stars, n.index)),
        semi.index, semi.tr)))))

(***************************************************************************)
(* parse_expression under a tracker, and the statement parsers.            *)
(***************************************************************************)
ParseExpressionT(toks, idx, tr) ==
    Bind(parse_expression(toks, idx), LAMBDA e :
        IF e.status = "ok" THEN OkT(e.node, e.index, tr)
        ELSE IF e.status = "ParserError" THEN RaiseT(e.err, tr)
        ELSE IndexErrorT(tr))

parse_return(toks, idx, tr) ==
    Try(_match_token(toks, idx, "return_kw", "expected keyword 'return'",
                     "GOT", tr), LAMBDA m :
    Try(ParseExpressionT(toks, m.index, m.tr), LAMBDA e :
    Try(_expect_semicolon(toks, e.index, e.tr), LAMBDA semi :
    OkT(ReturnNode(e.node, TokAt(toks, m.index - 1)), semi.index, semi.tr))))

parse_expr_statement(toks, idx, tr) ==
    Try(ParseExpressionT(toks, idx, tr), LAMBDA e :
    Try(_expect_semicolon(toks, e.index, e.tr), LAMBDA semi :
    OkT(ExprStatementNode(e.node), semi.index, semi.tr)))

RECURSIVE parse_statement(_, _, _)
RECURSIVE parse_compound_statement(_, _, _)
RECURSIVE parse_if_statement(_, _, _)
RECURSIVE CompoundLoop(_, _, _, _)

parse_if_statement(toks, idx, tr) ==
    Try(_match_token(toks, idx, "if_kw", "expected keyword 'if'", "GOT", tr),
        LAMBDA k :
    Try(_match_token(toks, k.index, "open_paren", "expected '('", "AFTER",
                     k.tr), LAMBDA o :
    Try(ParseExpressionT(toks, o.index, o.tr), LAMBDA e :
    Try(_match_token(toks, e.index, "close_paren", "expected ')'", "AFTER",
                     e.tr), LAMBDA c :
    Try(parse_statement(toks, c.index, c.tr), LAMBDA s :
    OkT(IfStatementNode(e.node, s.node), s.index, s.tr))))))

parse_statement(toks, idx, tr) ==
    Catch(parse_compound_statement(toks, idx, tr), LAMBDA tr1 :
    Catch(parse_return(toks, idx, tr1), LAMBDA tr2 :
    Catch(parse_if_statement(toks, idx, tr2), LAMBDA tr3 :
    parse_expr_statement(toks, idx, tr3))))

\* One iteration of the item loop of parse_compound_statement: a statement
\* is tried, then a declaration; the loop is left when both fail.
Continue(items, r) ==
    [status |-> "continue", index |-> r.index,
     nodes |-> Append(items, r.node), tr |-> r.tr]

Break(idx, items, tr) ==
    [status |-> "break", index |-> idx, nodes |-> items, tr |-> tr]

\* Mutant: the failure of the declaration attempt is not logged.
TryDeclarationUnlogged(toks, idx, items, tr) ==
    Bind(parse_declaration(toks, idx, tr), LAMBDA d :
        IF d.status = "ok" THEN Continue(items, d)
        ELSE Break(idx, items, d.tr))

\* Mutant: the declaration attempt starts where the failed statement
\* attempt stopped.
TryDeclarationFurther(toks, idx, items, tr) ==
    Bind(parse_declaration(toks, tr.raised[Len(tr.raised)].index, tr),
         LAMBDA d :
        IF d.status = "ok" THEN Continue(items, d)
        ELSE Break(idx, items, LogT(d.tr, d.err)))

TryDeclaration(toks, idx, items, tr) ==
    Bind(parse_declaration(toks, idx, tr), LAMBDA d :
        IF d.status = "ok" THEN Continue(items, d)
        ELSE Break(idx, items, LogT(d.tr, d.err)))

CompoundIter(toks, idx, items, tr) ==
    Bind(parse_statement(toks, idx, tr), LAMBDA s :
        IF s.status = "ok" THEN Continue(items, s)
        ELSE IF s.status = "IndexError" THEN s
        ELSE TryDeclaration(toks, idx, items, LogT(s.tr, s.err)))

CompoundLoop(toks, idx, items, tr) ==
    Bind(CompoundIter(toks, idx, items, tr), LAMBDA it :
        IF it.status = "continue"
        THEN CompoundLoop(toks, it.index, it.nodes, it.tr)
        ELSE it)

parse_compound_statement(toks, idx, tr) ==
    Try(_match_token(toks, idx, "open_brack", "expected '{'", "GOT", tr),
        LAMBDA o :
    Bind(CompoundLoop(toks, o.index, <<>>, o.tr), LAMBDA l :
        IF l.status = "IndexError" THEN l
        ELSE
    Try(_match_token(toks, l.index, "close_brack", "expected '}'", "GOT",
                     l.tr), LAMBDA c :
    OkT(CompoundNode(l.nodes), c.index, c.tr))))

(***************************************************************************)
(* parse_main.                                                             *)
(***************************************************************************)
MainErr == "expected main function starting"

parse_main(toks, idx, tr) ==
    Try(_match_token(toks, idx, "int_kw", MainErr, "AT", tr), LAMBDA a :
    Try(_match_token(toks, a.index, "main", MainErr, "AT", a.tr), LAMBDA b :
    Try(_match_token(toks, b.index, "open_paren", MainErr, "AT", b.tr),
        LAMBDA c :
    Try(_match_token(toks, c.index, "close_paren", MainErr, "AT", c.tr),
        LAMBDA d :
    Try(parse_compound_statement(toks, d.index, d.tr), LAMBDA body :
    OkT(MainNode(body.node), body.index, body.tr))))))

(***************************************************************************)
(* Inputs of the expression parser.                                        *)
(***************************************************************************)
Names == <<"a", "b", "c", "d", "e", "g", "h", "p", "q", "r", "s", "t">>

Digits == <<"1", "2", "3", "4", "5", "6", "7", "8", "9", "10", "11", "12">>

Id(name) == Token("identifier", name)

Num(content) == Token("number", content)

PosTok(kind, p) ==
    IF kind = "identifier" THEN Id(Names[p])
    ELSE IF kind = "number" THEN Num(Digits[p])
    ELSE Punct(kind)

AnyKinds ==
    {"identifier", "open_paren", "close_paren", "comma", "amp", "plus",
     "star", "equals"}

\* Every sequence of at most MaxAnyLen tokens over AnyKinds.
AnySeqs ==
    UNION {{[p \in 1..n |-> PosTok(f[p], p)] : f \in [1..n -> AnyKinds]} :
           n \in 0..MaxAnyLen}

\* a op1 b op2 c ...: operands of one kind, named in order, joined by
\* binary operators.
ChainOf(ops, operand) ==
    [p \in 1..(2 * Len(ops) + 1) |->
        IF p % 2 = 1 THEN PosTok(operand, (p + 1) \div 2)
        ELSE Punct(ops[p \div 2])]

\* The operators of a chain: all of them in chains of one and two
\* operators, one of each precedence and associativity in longer ones.
ChainOperators(n) ==
    IF n <= 2 THEN DOMAIN binary_operators ELSE {"plus", "star", "equals"}

Chains ==
    UNION {{ChainOf(ops, operand) :
               ops \in [1..n -> ChainOperators(n)],
               operand \in {"identifier", "number"}} :
           n \in 1..MaxOps}

\* f ( 1 , 2 , ... , n )
CallOf(n) ==
    <<Id("f"), Punct("open_paren")>>
        \o [p \in 1..(IF n = 0 THEN 0 ELSE 2 * n - 1) |->
               IF p % 2 = 1 THEN Num(Digits[(p + 1) \div 2])
               ELSE Punct("comma")]
        \o <<Punct("close_paren")>>

Calls == {CallOf(n) : n \in 0..MaxArgs}

\* ( x ) after and before other tokens.
GroupPrefixes ==
    {<<>>, <<Punct("plus")>>, <<Id("a"), Punct("plus")>>,
     <<Punct("open_paren")>>, <<Punct("amp")>>, <<Id("a"), Punct("equals")>>}

GroupSuffixes ==
    {<<>>, <<Punct("plus"), Id("b")>>, <<Punct("close_paren")>>}

Groupings ==
    {pre \o <<Punct("open_paren"), Id("x"), Punct("close_paren")>> \o post :
        pre \in GroupPrefixes, post \in GroupSuffixes}

\* a op b followed by a token that opens something the input never
\* finishes: an operator without its right operand, a call without its end.
Unfinished ==
    {ChainOf(<<op>>, operand) \o <<Punct(k)>> :
        op \in DOMAIN binary_operators,
        operand \in {"identifier", "number"},
        k \in {"open_paren", "star", "plus", "equals"}}

\* A call as the operand of a unary prefix or a binary operator.
CallOperands ==
    {pre \o <<Id("f"), Punct("open_paren"), Id("x"), Punct("close_paren")>>
         \o post :
        pre \in {<<Punct("amp")>>, <<Punct("star")>>,
                 <<Id("a"), Punct("plus")>>, <<Id("a"), Punct("star")>>,
                 <<Id("a"), Punct("equals")>>},
        post \in {<<>>, <<Punct("plus"), Id("b")>>}}

Terminators == {<<>>, <<Punct("semicolon")>>}

Starts == {<<>>, <<Punct("return_kw")>>}

ExprInputs ==
    {pre \o body \o post :
        pre \in Starts,
        body \in AnySeqs \cup Chains \cup Calls \cup Groupings
                     \cup Unfinished \cup CallOperands,
        post \in Terminators}

(***************************************************************************)
(* The expression parser as a state machine: one action per branch of      *)
(* the loop of parse_expression.                                           *)
(***************************************************************************)
NoResult == [status |-> "none"]

InitExpr ==
    /\ tokens \in ExprInputs
    /\ index = (IF Len(tokens) > 0 /\ tokens[1].kind = "return_kw"
                THEN 1 ELSE 0)
    /\ i = index
    /\ stack = <<>>
    /\ pc = "expr"
    /\ nodes = <<>>
    /\ best_error = None
    /\ error_collector = <<>>
    /\ result = NoResult
    /\ raised = <<>>
    /\ logged = <<>>

ExprFrame == UNCHANGED <<tokens, index, nodes, best_error, error_collector,
                         logged>>

LoopFrame == UNCHANGED <<pc, result, raised>>

ReduceNumber ==
    /\ pc = "expr"
    /\ Rule(tokens, stack, i) = "number"
    /\ stack' = ReduceNumberOn(stack)
    /\ UNCHANGED i
    /\ LoopFrame
    /\ ExprFrame

ReduceIdentifier ==
    /\ pc = "expr"
    /\ Rule(tokens, stack, i) = "identifier"
    /\ stack' = ReduceIdentifierOn(stack)
    /\ UNCHANGED i
    /\ LoopFrame
    /\ ExprFrame

ReduceBinary ==
    /\ pc = "expr"
    /\ Rule(tokens, stack, i) = "binary"
    /\ stack' = ReduceBinaryOn(stack)
    /\ UNCHANGED i
    /\ LoopFrame
    /\ ExprFrame

ReduceUnary ==
    /\ pc = "expr"
    /\ Rule(tokens, stack, i) = "unary"
    /\ stack' = ReduceUnaryOn(stack)
    /\ UNCHANGED i
    /\ LoopFrame
    /\ ExprFrame

ReduceFunctionCall ==
    /\ pc = "expr"
    /\ Rule(tokens, stack, i) = "call"
    /\ stack' = ReduceFunctionCallOn(stack)
    /\ UNCHANGED i
    /\ LoopFrame
    /\ ExprFrame

ReduceParenExpr ==
    /\ pc = "expr"
    /\ Rule(tokens, stack, i) = "paren"
    /\ stack' = ReduceParenOn(stack)
    /\ UNCHANGED i
    /\ LoopFrame
    /\ ExprFrame

\* Mutant: the shift forgets i += 1.
ShiftWithoutAdvance ==
    /\ pc = "expr"
    /\ Rule(tokens, stack, i) = "shift"
    /\ stack' = ShiftOn(tokens, stack, i)
    /\ UNCHANGED i
    /\ LoopFrame
    /\ ExprFrame

Shift ==
    /\ pc = "expr"
    /\ Rule(tokens, stack, i) = "shift"
    /\ stack' = ShiftOn(tokens, stack, i)
    /\ i' = i + 1
    /\ LoopFrame
    /\ ExprFrame

\* match_function_call read below the bottom of the stack: the IndexError
\* is caught nowhere and ends parse_expression.
MatchFunctionCallRaises ==
    /\ pc = "expr"
    /\ Rule(tokens, stack, i) = "IndexError"
    /\ pc' = "done"
    /\ result' = IndexErrorRaised
    /\ UNCHANGED <<stack, i, raised>>
    /\ ExprFrame

StopReading ==
    /\ pc = "expr"
    /\ Rule(tokens, stack, i) = "break"
    /\ pc' = "expr_end"
    /\ UNCHANGED <<stack, i, result, raised>>
    /\ ExprFrame

ReturnExpression ==
    \E r \in {SelectResult(stack, index)} :
        /\ pc = "expr_end"
        /\ r.status = "ok"
        /\ result' = r
        /\ pc' = "done"
        /\ UNCHANGED <<stack, i, raised>>
        /\ ExprFrame

RaiseExpectedExpression ==
    \E r \in {SelectResult(stack, index)} :
        /\ pc = "expr_end"
        /\ r.status = "ParserError"
        /\ result' = r
        /\ raised' = Append(raised, r.err)
        /\ pc' = "done"
        /\ UNCHANGED <<stack, i>>
        /\ ExprFrame

NextExpr ==
    \/ ReduceNumber
    \/ ReduceIdentifier
    \/ ReduceBinary
    \/ ReduceUnary
    \/ ReduceFunctionCall
    \/ MatchFunctionCallRaises
    \/ ReduceParenExpr
    \/ Shift
    \/ StopReading
    \/ ReturnExpression
    \/ RaiseExpectedExpression

SpecExpr == InitExpr /\ [][NextExpr]_vars

(***************************************************************************)
(* Inputs of Parser.parse: programs  int main ( ) { item* }  over a set of *)
(* items, and the same programs with one token deleted, one token          *)
(* replaced, tokens appended, or the end cut off.                          *)
(***************************************************************************)
P(kind) == Punct(kind)

ItemReturn == <<P("return_kw"), Num("4"), P("semicolon")>>

ItemDecl == <<P("int_kw"), Id("x"), P("semicolon")>>

ItemAssign ==
    <<Id("x"), P("equals"), Num("5"), P("plus"), Num("2"), P("star"),
      Num("3"), P("semicolon")>>

ItemIf ==
    <<P("if_kw"), P("open_paren"), Id("x"), P("close_paren"),
      P("return_kw"), Num("1"), P("semicolon")>>

ItemBlock == <<P("open_brack"), Id("x"), P("semicolon"), P("close_brack")>>

ItemPointerDecl ==
    <<P("unsigned_kw"), P("char_kw"), P("star"), Id("p"), P("semicolon")>>

ItemArrayDecl ==
    <<P("long_kw"), Id("a"), P("open_sq_brack"), Num("5"),
      P("close_sq_brack"), P("semicolon")>>

ItemCall ==
    <<Id("f"), P("open_paren"), Id("x"), P("close_paren"), P("semicolon")>>

ItemParen == <<P("open_paren"), Id("x"), P("close_paren"), P("semicolon")>>

Items ==
    {ItemReturn, ItemDecl, ItemAssign, ItemIf, ItemBlock, ItemPointerDecl,
     ItemArrayDecl, ItemCall, ItemParen}

\* The items that longer bodies are continued with.
CoreItems == {ItemReturn, ItemDecl, ItemIf}

\* The bodies of at most n items: any item in the first `full` places, a
\* core item after them.
RECURSIVE BodiesOver(_, _)
BodiesOver(n, full) ==
    IF n = 0 THEN {<<>>}
    ELSE BodiesOver(n - 1, full)
             \cup {b \o it : b \in BodiesOver(n - 1, full),
                              it \in IF n <= full THEN Items ELSE CoreItems}

Bodies(n) == BodiesOver(n, 2)

Header == <<P("int_kw"), P("main"), P("open_paren"), P("close_paren")>>

ProgramOf(body) == Header \o <<P("open_brack")>> \o body \o <<P("close_brack")>>

Programs(n) == {ProgramOf(b) : b \in Bodies(n)}

DeleteAt(s, p) == SubSeq(s, 1, p - 1) \o SubSeq(s, p + 1, Len(s))

ReplaceAt(s, p, tok) == [s EXCEPT ![p] = tok]

Replacements ==
    {P("semicolon"), P("open_brack"), P("close_brack"), Id("y")}

Trailers ==
    {<<P("semicolon")>>, <<P("close_brack")>>, <<Id("y"), P("semicolon")>>}

Damaged(n) ==
    UNION {{DeleteAt(s, p) : p \in 1..Len(s)}
            \cup {ReplaceAt(s, p, tok) : p \in 1..Len(s), tok \in Replacements}
            \cup {s \o t : t \in Trailers}
            \cup {SubSeq(s, 1, p) : p \in 0..(Len(s) - 1)} :
           s \in {ProgramOf(b) : b \in BodiesOver(n, 1)}}

ProgInputs == Programs(MaxItems) \cup Damaged(MaxDamagedItems)

(***************************************************************************)
(* Parser.parse as a state machine: the call of parse_main, then the       *)
(* handler of its ParserError or the check for leftover tokens.            *)
(***************************************************************************)
InitParse ==
    /\ tokens \in ProgInputs
    /\ index = 0
    /\ i = 0
    /\ stack = <<>>
    /\ pc = "parse"
    /\ nodes = <<>>
    /\ best_error = None
    /\ error_collector = <<>>
    /\ result = NoResult
    /\ raised = <<>>
    /\ logged = <<>>

ParseFrame == UNCHANGED <<tokens, i, stack, nodes>>

MainOutcome == parse_main(tokens, 0, Tracker(best_error, raised, logged))

\* node, index = self.parse_main(0), when it returns.
ParseMainReturns ==
    \E r \in {MainOutcome} :
        /\ pc = "parse"
        /\ r.status = "ok"
        /\ pc' = "check_leftover"
        /\ result' = Ok(r.node, r.index)
        /\ index' = r.index
        /\ best_error' = r.tr.best
        /\ raised' = r.tr.raised
        /\ logged' = r.tr.logged
        /\ UNCHANGED error_collector
        /\ ParseFrame

\* self.parse_main(0), when it raises a ParserError.
ParseMainRaises ==
    \E r \in {MainOutcome} :
        /\ pc = "parse"
        /\ r.status = "ParserError"
        /\ pc' = "except"
        /\ result' = Raise(r.err)
        /\ best_error' = r.tr.best
        /\ raised' = r.tr.raised
        /\ logged' = r.tr.logged
        /\ UNCHANGED <<index, error_collector>>
        /\ ParseFrame

\* self.parse_main(0), when match_function_call raises IndexError: parse
\* has no handler for it and the exception leaves parse.
ParseMainCrashes ==
    \E r \in {MainOutcome} :
        /\ pc = "parse"
        /\ r.status = "IndexError"
        /\ pc' = "done"
        /\ result' = IndexErrorRaised
        /\ best_error' = r.tr.best
        /\ raised' = r.tr.raised
        /\ logged' = r.tr.logged
        /\ UNCHANGED <<index, error_collector>>
        /\ ParseFrame

\* except ParserError as e: log it, deliver best_error, return None.
Returned(node) == [status |-> "returned", node |-> node]

ExceptParserError ==
    /\ pc = "except"
    /\ best_error' = _log_error(best_error, result.err)
    /\ logged' = Append(logged, result.err)
    /\ error_collector' = Append(error_collector, best_error')
    /\ result' = Returned(None)
    /\ pc' = "done"
    /\ UNCHANGED <<index, raised>>
    /\ ParseFrame

\* Mutant: leftover tokens are not reported.
LeftoverTokensSilent ==
    /\ pc = "check_leftover"
    /\ index < Len(tokens)
    /\ result' = Returned(result.node)
    /\ pc' = "done"
    /\ UNCHANGED <<index, best_error, error_collector, raised, logged>>
    /\ ParseFrame

\* Mutant: the leftover-token error goes through the best-error tracker.
LeftoverTokensFolded ==
    /\ pc = "check_leftover"
    /\ index < Len(tokens)
    /\ best_error' =
           _log_error(best_error, ParserError("unexpected token", index, "AT"))
    /\ logged' = Append(logged, ParserError("unexpected token", index, "AT"))
    /\ error_collector' = Append(error_collector, best_error')
    /\ result' = Returned(result.node)
    /\ pc' = "done"
    /\ UNCHANGED <<index, raised>>
    /\ ParseFrame

\* if self.tokens[index:]: report the leftover token; return node.
LeftoverTokens ==
    /\ pc = "check_leftover"
    /\ index < Len(tokens)
    /\ error_collector' =
           Append(error_collector, ParserError("unexpected token", index, "AT"))
    /\ result' = Returned(result.node)
    /\ pc' = "done"
    /\ UNCHANGED <<index, best_error, raised, logged>>
    /\ ParseFrame

NoLeftoverTokens ==
    /\ pc = "check_leftover"
    /\ ~(index < Len(tokens))
    /\ result' = Returned(result.node)
    /\ pc' = "done"
    /\ UNCHANGED <<index, best_error, error_collector, raised, logged>>
    /\ ParseFrame

NextParse ==
    \/ ParseMainReturns
    \/ ParseMainRaises
    \/ ParseMainCrashes
    \/ ExceptParserError
    \/ LeftoverTokens
    \/ NoLeftoverTokens

SpecParse == InitParse /\ [][NextParse]_vars

TypeOKParse ==
    pc = "done" => result.status \in {"returned", "IndexError"}

(***************************************************************************)
(* _log_error on its own: any sequence of errors is logged on one parser.  *)
(***************************************************************************)
LogMessages == {"expected expression", "expected semicolon"}

LogErrors ==
    {ParserError(m, k, "GOT") : m \in LogMessages, k \in 0..MaxAmount}

InitLog ==
    /\ tokens = <<>>
    /\ index = 0
    /\ i = 0
    /\ stack = <<>>
    /\ pc = "log"
    /\ nodes = <<>>
    /\ best_error = None
    /\ error_collector = <<>>
    /\ result = NoResult
    /\ raised = <<>>
    /\ logged = <<>>

LogError ==
    \E error \in LogErrors :
        /\ pc = "log"
        /\ Len(logged) < MaxLogged
        /\ best_error' = _log_error(best_error, error)
        /\ logged' = Append(logged, error)
        /\ UNCHANGED <<tokens, pc, index, i, stack, nodes, error_collector,
                       result, raised>>

NextLog == LogError

SpecLog == InitLog /\ [][NextLog]_vars

(***************************************************************************)
(* parse_declaration on its own: declarations                              *)
(*   [signed|unsigned] T *^k name [ '[' n ']' ] ;                          *)
(* and the same with one token deleted, at start index 0 or 1.             *)
(***************************************************************************)
Signs == {<<>>, <<P("signed_kw")>>, <<P("unsigned_kw")>>}

Literals == {"5", "05", "12"}

Suffixes ==
    {<<>>} \cup
    {<<P("open_sq_brack"), Num(c), P("close_sq_brack")>> : c \in Literals}

Stars(k) == [p \in 1..k |-> P("star")]

DeclOf(sign, type, k, suffix) ==
    sign \o <<P(type)>> \o Stars(k) \o <<Id("v")>> \o suffix
        \o <<P("semicolon")>>

TypeKinds == {type_tokens[k] : k \in 1..Len(type_tokens)}

Decls ==
    {DeclOf(sign, type, k, suffix) :
        sign \in Signs, type \in TypeKinds, k \in 0..MaxStars,
        suffix \in Suffixes}

DamagedDecls == UNION {{DeleteAt(s, p) : p \in 1..Len(s)} : s \in Decls}

DeclInputs == {pre \o d : pre \in Starts, d \in Decls \cup DamagedDecls}

InitDecl ==
    /\ tokens \in DeclInputs
    /\ index = (IF Len(tokens) > 0 /\ tokens[1].kind = "return_kw"
                THEN 1 ELSE 0)
    /\ i = 0
    /\ stack = <<>>
    /\ pc = "declaration"
    /\ nodes = <<>>
    /\ best_error = None
    /\ error_collector = <<>>
    /\ result = NoResult
    /\ raised = <<>>
    /\ logged = <<>>

DeclFrame == UNCHANGED <<tokens, index, i, stack, nodes, error_collector>>

DeclOutcome ==
    parse_declaration(tokens, index, Tracker(best_error, raised, logged))

DeclarationReturns ==
    \E r \in {DeclOutcome} :
        /\ pc = "declaration"
        /\ r.status = "ok"
        /\ result' = Ok(r.node, r.index)
        /\ best_error' = r.tr.best
        /\ raised' = r.tr.raised
        /\ logged' = r.tr.logged
        /\ pc' = "done"
        /\ DeclFrame

DeclarationRaises ==
    \E r \in {DeclOutcome} :
        /\ pc = "declaration"
        /\ r.status = "ParserError"
        /\ result' = Raise(r.err)
        /\ best_error' = r.tr.best
        /\ raised' = r.tr.raised
        /\ logged' = r.tr.logged
        /\ pc' = "done"
        /\ DeclFrame

NextDecl == DeclarationReturns \/ DeclarationRaises

SpecDecl == InitDecl /\ [][NextDecl]_vars

(***************************************************************************)
(* Parser.parse and parse_expression side by side: a run is either a run   *)
(* of parse on a program or the stepwise run of parse_expression on an     *)
(* expression.                                                             *)
(***************************************************************************)
InitParser == InitExpr \/ InitParse

NextParser == NextExpr \/ NextParse

SpecParser == InitParser /\ [][NextParser]_vars

(***************************************************************************)
(* Properties of parse_expression.                                         *)
(***************************************************************************)
\* The loop and the function computed in one go agree with the stepwise run.
ExprAgree ==
    pc = "done" => result = parse_expression(tokens, index)

\* The tokens of the expression: from index up to a closing semicolon.
ExprEnd ==
    IF Len(tokens) > index /\ tokens[Len(tokens)].kind = "semicolon"
    THEN Len(tokens) - 1
    ELSE Len(tokens)

ExprTokens == SubSeq(tokens, index + 1, ExprEnd)

Operand(tok) == tok.kind \in {"number", "identifier"}

Leaf(tok) ==
    IF tok.kind = "number" THEN NumberNode(tok) ELSE IdentifierNode(tok)

ClaimOperators == {"plus", "star", "slash", "twoequals", "notequal"}

ClaimPrecedence ==
    [star |-> 12, slash |-> 12, plus |-> 11, twoequals |-> 8,
     notequal |-> 8, equals |-> 1]

\* a op1 b op2 c over the operators of the claim
IsTwoOperatorChain ==
    /\ Len(ExprTokens) = 5
    /\ \A p \in {1, 3, 5} : Operand(ExprTokens[p])
    /\ \A p \in {2, 4} : ExprTokens[p].kind \in ClaimOperators

TwoOperatorTree(e) ==
    IF ClaimPrecedence[e[4].kind] > ClaimPrecedence[e[2].kind]
    THEN BinaryOperatorNode(Leaf(e[1]), e[2],
                            BinaryOperatorNode(Leaf(e[3]), e[4], Leaf(e[5])))
    ELSE BinaryOperatorNode(BinaryOperatorNode(Leaf(e[1]), e[2], Leaf(e[3])),
                            e[4], Leaf(e[5]))

\* C2: a op1 b op2 c parses as a op1 (b op2 c) when op2 has the higher
\* precedence and as (a op1 b) op2 c otherwise, for op1, op2 among
\* + * / == != ; the whole chain is consumed.
C2_Precedence ==
    (pc = "done" /\ IsTwoOperatorChain)
        => result = Ok(TwoOperatorTree(ExprTokens), index + 5)

\* 1 + 2 * 3 has been parsed.
C2_Witness ==
    /\ pc = "done"
    /\ IsTwoOperatorChain
    /\ ExprTokens[1] = Num("1")
    /\ ExprTokens[2].kind = "plus"
    /\ ExprTokens[4].kind = "star"
    /\ result.status = "ok"
    /\ result.node.right.node = "BinaryOperator"

\* x1 = x2 = ... = xn with n >= 3
IsAssignmentChain ==
    /\ Len(ExprTokens) >= 5
    /\ Len(ExprTokens) % 2 = 1
    /\ \A p \in 1..Len(ExprTokens) :
           IF p % 2 = 1 THEN Operand(ExprTokens[p])
           ELSE ExprTokens[p].kind = "equals"

RECURSIVE RightNested(_, _)
RightNested(e, p) ==
    IF p = Len(e) THEN Leaf(e[p])
    ELSE BinaryOperatorNode(Leaf(e[p]), e[p + 1], RightNested(e, p + 2))

AssignmentChainResult ==
    (pc = "done" /\ IsAssignmentChain)
        => result = Ok(RightNested(ExprTokens, 1), index + Len(ExprTokens))

\* expr = expr on top of the stack and = next: the loop shifts.
AssignmentDeferred ==
    (/\ pc = "expr"
     /\ Len(stack) >= 3
     /\ IsNode(stack[Len(stack)].item)
     /\ IsTok(stack[Len(stack) - 1], "equals")
     /\ IsNode(stack[Len(stack) - 2].item)
     /\ i < Len(tokens)
     /\ tokens[i + 1].kind = "equals")
        => /\ stack' = Append(stack, StackItem(tokens[i + 1], 1))
           /\ i' = i + 1

\* C3: a chain x1 = x2 = ... = xn (n >= 3) parses with the rightmost
\* assignment innermost, and a reduce of = is deferred (the next token is
\* shifted) while the next unconsumed token is = too.
C3_RightAssociative == []AssignmentChainResult /\ [][AssignmentDeferred]_vars

\* a = b = c has been parsed.
C3_Witness ==
    /\ pc = "done"
    /\ IsAssignmentChain
    /\ Len(ExprTokens) = 5
    /\ result.status = "ok"
    /\ result.node.right.node = "BinaryOperator"
    /\ result.node.left.node = "Identifier"

\* C4: ( x ) at the start of the expression, the opening parenthesis at the
\* bottom of the stack, parses as ParenExpr(x) and ends three tokens past
\* the start.
C4_ParenAtStart ==
    (/\ pc = "done"
     /\ Len(ExprTokens) = 3
     /\ ExprTokens[1].kind = "open_paren"
     /\ Operand(ExprTokens[2])
     /\ ExprTokens[3].kind = "close_paren")
        => result = Ok(ParenExprNode(Leaf(ExprTokens[2])), index + 3)

\* f ( a1 , ... , an ) with operands f, a1 .. an
CallArgs(e) == IF Len(e) = 3 THEN 0 ELSE (Len(e) - 2) \div 2

IsCall ==
    /\ Len(ExprTokens) >= 3
    /\ Len(ExprTokens) = 3 \/ Len(ExprTokens) % 2 = 0
    /\ Operand(ExprTokens[1])
    /\ ExprTokens[2].kind = "open_paren"
    /\ ExprTokens[Len(ExprTokens)].kind = "close_paren"
    /\ \A j \in 1..CallArgs(ExprTokens) : Operand(ExprTokens[2 * j + 1])
    /\ \A j \in 1..(CallArgs(ExprTokens) - 1) :
           ExprTokens[2 * j + 2].kind = "comma"

CallTree(e) ==
    FunctionCallNode(Leaf(e[1]), [j \in 1..CallArgs(e) |-> Leaf(e[2 * j + 1])])

CallResult ==
    (pc = "done" /\ IsCall)
        => result = Ok(CallTree(ExprTokens), index + Len(ExprTokens))

\* The opening parenthesis of the call on top of the stack.
TopOpenParen(stk) ==
    CHOOSE q \in 1..Len(stk) :
        /\ IsTok(stk[q], "open_paren")
        /\ \A r \in (q + 1)..Len(stk) : ~IsTok(stk[r], "open_paren")

RECURSIVE TotalLength(_, _, _)
TotalLength(stk, from, to) ==
    IF from > to THEN 0 ELSE stk[from].length + TotalLength(stk, from + 1, to)

CallReductionOf(stk, stk2, q, n, removed) ==
    /\ Len(stk2) = Len(stk) - removed + 1
    /\ SubSeq(stk2, 1, Len(stk2) - 1) = SubSeq(stk, 1, Len(stk) - removed)
    /\ stk2[Len(stk2)].length
           = TotalLength(stk, Len(stk) - removed + 1, Len(stk))
    /\ stk2[Len(stk2)].item
           = FunctionCallNode(stk[q - 1].item,
                              [j \in 1..n |-> stk[q + 2 * j - 1].item])

CallReduction ==
    (pc = "expr" /\ Rule(tokens, stack, i) = "call")
        => LET q == TopOpenParen(stack)
               n == (Len(stack) - q) \div 2
           IN  CallReductionOf(stack, stack', q, n,
                               IF n = 0 THEN 3 ELSE 2 * n + 2)

\* C5: f ( a1 , ... , an ) parses as FunctionCall(f, [a1, ..., an]) with the
\* arguments in source order, and the reduction replaces exactly 2n+2 stack
\* items (3 when n = 0) by one item whose length is the sum of theirs.
C5_FunctionCall == []CallResult /\ [][CallReduction]_vars

\* f(1, 2, 3) has been parsed.
C5_Witness ==
    /\ pc = "done"
    /\ IsCall
    /\ CallArgs(ExprTokens) = 3
    /\ result.status = "ok"
    /\ result.node.node = "FunctionCall"
    /\ Len(result.node.args) = 3
    /\ result.node.args[1].tok = Num("1")

(***************************************************************************)
(* Properties of Parser.parse.                                             *)
(***************************************************************************)
IsPrefix(it, body) == Len(it) <= Len(body) /\ SubSeq(body, 1, Len(it)) = it

Rest(it, body) == SubSeq(body, Len(it) + 1, Len(body))

RECURSIVE IsItems(_)
IsItems(body) ==
    \/ body = <<>>
    \/ \E it \in Items : IsPrefix(it, body) /\ IsItems(Rest(it, body))

\* int main ( ) { item* } with every item one of Items
IsProgram ==
    /\ Len(tokens) >= 6
    /\ SubSeq(tokens, 1, 5) = Header \o <<P("open_brack")>>
    /\ tokens[Len(tokens)] = P("close_brack")
    /\ IsItems(SubSeq(tokens, 6, Len(tokens) - 1))

X == IdentifierNode(Id("x"))

N(c) == NumberNode(Num(c))

\* The node each item stands for.
ExpectedOf(it) ==
    CASE it = ItemReturn -> ReturnNode(N("4"), P("return_kw"))
      [] it = ItemDecl -> DeclarationNode(Id("x"), BaseCType("int_kw"))
      [] it = ItemAssign ->
             ExprStatementNode(
                 BinaryOperatorNode(X, P("equals"),
                     BinaryOperatorNode(N("5"), P("plus"),
                         BinaryOperatorNode(N("2"), P("star"), N("3")))))
      [] it = ItemIf ->
             IfStatementNode(X, ReturnNode(N("1"), P("return_kw")))
      [] it = ItemBlock -> CompoundNode(<<ExprStatementNode(X)>>)
      [] it = ItemPointerDecl ->
             DeclarationNode(Id("p"),
                 PointerCType([ctype |-> "char_kw", signed |-> FALSE]))
      [] it = ItemArrayDecl ->
             DeclarationNode(Id("a"), ArrayCType(BaseCType("long_kw"), 5))
      [] it = ItemCall ->
             ExprStatementNode(
                 FunctionCallNode(IdentifierNode(Id("f")), <<X>>))
      [] it = ItemParen -> ExprStatementNode(ParenExprNode(X))

RECURSIVE ExpectedItems(_)
ExpectedItems(body) ==
    IF body = <<>> THEN <<>>
    ELSE LET it == CHOOSE it \in Items : IsPrefix(it, body)
         IN  <<ExpectedOf(it)>> \o ExpectedItems(Rest(it, body))

\* C1: on int main ( ) { item* } with well-formed items, parse returns
\* Main(Compound(items)) with the items in program order and adds no
\* diagnostic to the sink.
C1_WellFormedProgram ==
    (pc = "done" /\ IsProgram)
        => /\ result = Returned(MainNode(CompoundNode(
                  ExpectedItems(SubSeq(tokens, 6, Len(tokens) - 1)))))
           /\ error_collector = <<>>

\* The same for the programs none of whose statements begins with "(".
C1_WithoutLeadingParen ==
    (pc = "done" /\ IsProgram
        /\ \A p \in 6..(Len(tokens) - 1) :
               tokens[p].kind = "open_paren"
                   => tokens[p - 1].kind \in {"if_kw", "identifier"})
        => /\ result = Returned(MainNode(CompoundNode(
                  ExpectedItems(SubSeq(tokens, 6, Len(tokens) - 1)))))
           /\ error_collector = <<>>

MainRaised ==
    parse_main(tokens, 0, Tracker(None, <<>>, <<>>)).status = "ParserError"

\* C6: when parse_main raises a ParserError, parse returns None and adds
\* exactly one diagnostic, best_error, whose amount_parsed is at least that
\* of every ParserError raised in the call, each of which was logged.
C6_OneBestDiagnostic ==
    (pc = "done" /\ MainRaised)
        => /\ result = Returned(None)
           /\ error_collector = <<best_error>>
           /\ logged = raised
           /\ \A p \in 1..Len(raised) :
                  best_error.amount_parsed >= raised[p].amount_parsed

\* parse failed, and the diagnostic delivered is an error caught on the way
\* that got further than the error parse_main ended with.
C6_Witness ==
    /\ pc = "done"
    /\ result = Returned(None)
    /\ Len(error_collector) = 1
    /\ Len(raised) >= 2
    /\ error_collector[1].amount_parsed
           > raised[Len(raised)].amount_parsed

\* C8 as stated: whenever parse returns a Main node, every token was
\* consumed.
C8_NoTrailingTokens ==
    (pc = "done" /\ result.status = "returned" /\ result.node # None)
        => index = Len(tokens)

\* C8 as amended: parse returns a Main node whenever parse_main succeeds;
\* every token was consumed exactly when the sink stays empty, and leftover
\* tokens yield the node together with one "unexpected token" diagnostic of
\* kind AT at the first leftover token.
C8_TrailingTokensReported ==
    (pc = "done" /\ result.status = "returned" /\ result.node # None)
        => /\ result.node.node = "Main"
           /\ \/ index = Len(tokens) /\ error_collector = <<>>
              \/ /\ index < Len(tokens)
                 /\ error_collector
                        = <<ParserError("unexpected token", index, "AT")>>

\* a complete program followed by extra tokens has been parsed.
C8_Witness ==
    /\ pc = "done"
    /\ result.status = "returned"
    /\ result.node # None
    /\ index < Len(tokens)
    /\ Len(error_collector) = 1

ShapeKinds == <<"int_kw", "main", "open_paren", "close_paren", "open_brack">>

Mismatch(k) == k >= Len(tokens) \/ tokens[k + 1].kind # ShapeKinds[k + 1]

Deviates == \E k \in 0..4 : Mismatch(k)

FirstMismatch ==
    CHOOSE k \in 0..4 : Mismatch(k) /\ \A j \in 0..(k - 1) : ~Mismatch(j)

\* C9 as stated: a deviation from int main ( ) { fails with an AT-kind
\* error at the first mismatching token, and that is the diagnostic
\* delivered.
C9_ShapeErrorIsAT ==
    (pc = "done" /\ Deviates)
        => /\ result = Returned(None)
           /\ Len(error_collector) = 1
           /\ error_collector[1].kind = "AT"
           /\ error_collector[1].index = FirstMismatch

\* C9 as amended: a deviation in int main ( ) fails with an AT-kind error
\* at the first mismatching token; a missing { after them fails with the
\* GOT-kind error "expected '{'" at index 4; either is the one diagnostic
\* delivered.
C9_ShapeError ==
    (pc = "done" /\ Deviates)
        => /\ result = Returned(None)
           /\ error_collector =
                  <<IF FirstMismatch < 4
                    THEN ParserError(MainErr, FirstMismatch, "AT")
                    ELSE ParserError("expected '{'", 4, "GOT")>>

\* int main ( { return 4 ; } has been parsed.
C9_Witness ==
    /\ pc = "done"
    /\ Len(tokens) = 8
    /\ Deviates
    /\ FirstMismatch = 3
    /\ tokens[4].kind = "open_brack"
    /\ tokens[5].kind = "return_kw"
    /\ Len(error_collector) = 1
    /\ error_collector[1].index = 3

(***************************************************************************)
(* Properties of _log_error.                                               *)
(***************************************************************************)
\* The position of the last logged error of greatest amount_parsed.
LatestMax(log) ==
    CHOOSE p \in 1..Len(log) :
        /\ \A q \in 1..Len(log) :
               log[q].amount_parsed <= log[p].amount_parsed
        /\ \A q \in (p + 1)..Len(log) :
               log[q].amount_parsed < log[p].amount_parsed

BestIsLatestMax ==
    IF logged = <<>> THEN best_error = None
    ELSE best_error = logged[LatestMax(logged)]

NeverDecreases ==
    best_error # None
        => best_error'.amount_parsed >= best_error.amount_parsed

\* C7: best_error is the logged error of greatest amount_parsed, the most
\* recently logged one among those tied for it, and its amount_parsed never
\* decreases.
C7_BestError == []BestIsLatestMax /\ [][NeverDecreases]_vars

\* two different errors tied for the greatest amount, then a smaller one:
\* the second of the tied ones is kept.
C7_Witness ==
    /\ Len(logged) = 3
    /\ logged[1].amount_parsed = logged[2].amount_parsed
    /\ logged[1] # logged[2]
    /\ logged[3].amount_parsed < logged[2].amount_parsed
    /\ best_error = logged[2]

(***************************************************************************)
(* Properties of parse_declaration.                                        *)
(***************************************************************************)
RECURSIVE Nested(_, _)
Nested(base, k) ==
    IF k = 0 THEN base ELSE [ctype |-> "pointer", arg |-> Nested(base, k - 1)]

LiteralValue(content) ==
    CASE content = "5" -> 5 [] content = "05" -> 5 [] content = "12" -> 12

ExpectedType(sign, type, k, suffix) ==
    LET base == [ctype |-> type, signed |-> sign # <<P("unsigned_kw")>>]
    IN  IF suffix = <<>> THEN Nested(base, k)
        ELSE [ctype |-> "array", el |-> Nested(base, k),
              n |-> LiteralValue(suffix[2].content)]

\* C10: on [signed|unsigned] T *^k name [ '[' n ']' ] ; parse_declaration
\* returns the Declaration of name whose type is k pointers around the base
\* type of T (unsigned iff the keyword is there), inside one array of n
\* iff the suffix is there, and the index just past the semicolon.
C10_Declaration ==
    \A sign \in Signs, type \in TypeKinds, k \in 0..MaxStars,
       suffix \in Suffixes :
        (/\ pc = "done"
         /\ SubSeq(tokens, index + 1, Len(tokens))
                = DeclOf(sign, type, k, suffix))
            => result = Ok(DeclarationNode(Id("v"),
                               ExpectedType(sign, type, k, suffix)),
                           index + Len(sign) + 1 + k + 1 + Len(suffix) + 1)

\* unsigned T * * v [ n ] ; has been parsed at index 1.
C10_Witness ==
    /\ pc = "done"
    /\ index = 1
    /\ result.status = "ok"
    /\ result.node.ctype.ctype = "array"
    /\ result.node.ctype.el.ctype = "pointer"
    /\ result.node.ctype.el.arg.ctype = "pointer"
    /\ result.node.ctype.el.arg.arg.signed = FALSE
    /\ result.index = Len(tokens)

(***************************************************************************)
(* The expressions of the grammar: a number, an identifier, expr op expr,  *)
(* & expr, * expr, expr ( ), expr ( expr , ... , expr ), ( expr ).         *)
(* EndOfExpr(toks, k) is the index just past the longest expression that   *)
(* starts at index k, or -1 when no expression starts there.               *)
(***************************************************************************)
RECURSIVE EndOfExpr(_, _), EndOfUnary(_, _), EndOfCalls(_, _),
          EndOfArgs(_, _), EndOfBinary(_, _)

EndOfPrimary(toks, k) ==
    IF NextIs(toks, k, "number") \/ NextIs(toks, k, "identifier") THEN k + 1
    ELSE IF NextIs(toks, k, "open_paren")
         THEN Bind(EndOfExpr(toks, k + 1), LAMBDA e :
                  IF e >= 0 /\ NextIs(toks, e, "close_paren") THEN e + 1
                  ELSE -1)
    ELSE -1

EndOfArgs(toks, k) ==
    Bind(EndOfExpr(toks, k), LAMBDA e :
        IF e < 0 THEN -1
        ELSE IF NextIs(toks, e, "comma") THEN EndOfArgs(toks, e + 1)
        ELSE e)

EndOfCalls(toks, k) ==
    IF ~NextIs(toks, k, "open_paren") THEN k
    ELSE IF NextIs(toks, k + 1, "close_paren") THEN EndOfCalls(toks, k + 2)
    ELSE Bind(EndOfArgs(toks, k + 1), LAMBDA a :
             IF a >= 0 /\ NextIs(toks, a, "close_paren")
             THEN EndOfCalls(toks, a + 1)
             ELSE k)

EndOfUnary(toks, k) ==
    IF k < Len(toks) /\ TokAt(toks, k).kind \in unary_prefix_operators
    THEN EndOfUnary(toks, k + 1)
    ELSE Bind(EndOfPrimary(toks, k), LAMBDA q :
             IF q < 0 THEN -1 ELSE EndOfCalls(toks, q))

EndOfBinary(toks, k) ==
    IF k < Len(toks) /\ TokAt(toks, k).kind \in DOMAIN binary_operators
    THEN Bind(EndOfUnary(toks, k + 1), LAMBDA u :
             IF u < 0 THEN k ELSE EndOfBinary(toks, u))
    ELSE k

EndOfExpr(toks, k) ==
    Bind(EndOfUnary(toks, k), LAMBDA u :
        IF u < 0 THEN -1 ELSE EndOfBinary(toks, u))

\* The source tokens of a node, in order, the parentheses and commas that
\* the node does not keep put back.
RECURSIVE TokensOf(_), TokensOfArgs(_, _)
TokensOfArgs(args, p) ==
    IF p > Len(args) THEN <<>>
    ELSE (IF p > 1 THEN <<Punct("comma")>> ELSE <<>>)
             \o TokensOf(args[p]) \o TokensOfArgs(args, p + 1)

TokensOf(n) ==
    CASE n.node \in {"Number", "Identifier"} -> <<n.tok>>
      [] n.node = "BinaryOperator" ->
            TokensOf(n.left) \o <<n.op>> \o TokensOf(n.right)
      [] n.node \in {"AddrOf", "Deref"} -> <<n.op>> \o TokensOf(n.expr)
      [] n.node = "FunctionCall" ->
            TokensOf(n.func) \o <<Punct("open_paren")>>
                \o TokensOfArgs(n.args, 1) \o <<Punct("close_paren")>>
      [] n.node = "ParenExpr" ->
            <<Punct("open_paren")>> \o TokensOf(n.expr)
                \o <<Punct("close_paren")>>

ExprSucceeded == pc = "done" /\ result.status = "ok"

\* The node is built from exactly the tokens up to the returned index.
BuiltFromConsumed ==
    ExprSucceeded
        => /\ result.index \in (index + 1)..Len(tokens)
           /\ TokensOf(result.node) = SubSeq(tokens, index + 1, result.index)

\* C11: when parse_expression succeeds, the tokens from the start index up
\* to the returned index are the longest prefix of the remaining tokens
\* that is an expression, the node is built from exactly those tokens, and
\* the token at the returned index is not counted as consumed.
C11_LongestPrefix ==
    /\ BuiltFromConsumed
    /\ ExprSucceeded => result.index = EndOfExpr(tokens, index)

\* What does hold: the consumed tokens are an expression of the grammar.
ConsumedIsExpression ==
    /\ BuiltFromConsumed
    /\ ExprSucceeded
           => EndOfExpr(SubSeq(tokens, 1, result.index), index) = result.index


(***************************************************************************)
(* The result of parse_expression once the loop has stopped.               *)
(***************************************************************************)
LoopStopped == pc = "done" /\ result.status # "IndexError"

ExpectedExpressionAt(idx) ==
    /\ result.status = "ParserError"
    /\ result.err.message = "expected expression"
    /\ result.err.index = idx

\* C12 as stated: once the loop has stopped the call succeeds only if the
\* stack is exactly one expression node, and fails with "expected
\* expression" at the starting index in every other case.
C12_ExactlyOneNode ==
    LoopStopped
        => IF Len(stack) = 1 /\ IsNode(stack[1].item)
           THEN result = Ok(stack[1].item, index + stack[1].length)
           ELSE ExpectedExpressionAt(index)

\* C12 amended: once the loop has stopped the call succeeds exactly when
\* the stack is not empty and its bottom item is an expression node,
\* whatever lies above it; it then returns that node and the index just
\* past the tokens of that node.  With an empty stack or a raw token at
\* the bottom it fails with "expected expression" at the starting index.
C12_BottomNode ==
    LoopStopped
        => IF Len(stack) > 0 /\ IsNode(stack[1].item)
           THEN /\ result = Ok(stack[1].item, index + stack[1].length)
                /\ result.index <= i
                /\ (Len(stack) > 1 => result.index < i)
           ELSE /\ ExpectedExpressionAt(index)
                /\ result.err.kind = "GOT"
                /\ raised = <<result.err>>

\* x ) has been parsed: the call succeeded with two items on the stack.
C12_Witness ==
    /\ LoopStopped
    /\ result.status = "ok"
    /\ Len(stack) = 2
    /\ IsTok(stack[2], "close_paren")
    /\ result.index = index + 1


(***************************************************************************)
(* match_function_call on the stacks of parse_expression.                  *)
(***************************************************************************)
\* C13: on every stack that parse_expression reaches, match_function_call
\* returns a match or None and never reads below the bottom of the stack,
\* and parse_expression never ends with an error that is not a ParserError.
C13_MatchFunctionCallTotal ==
    /\ pc = "expr" => match_function_call(stack).status \in {"match", "None"}
    /\ pc = "done" => result.status \in {"ok", "ParserError"}


(***************************************************************************)
(* The leftover-token check of Parser.parse.                               *)
(***************************************************************************)
\* The step of parse after parse_main has returned.
LeftoverCheck ==
    pc = "check_leftover"
        => /\ pc' = "done"
           /\ result' = Returned(result.node)
           /\ best_error' = best_error
           /\ logged' = logged
           /\ IF index < Len(tokens)
              THEN error_collector'
                       = <<ParserError("unexpected token", index, "AT")>>
              ELSE error_collector' = <<>>

\* C14: after parse_main has succeeded, parse adds to the sink exactly one
\* "unexpected token" error of kind AT at the first leftover token when
\* tokens remain, and nothing when none remain; best_error is neither
\* updated nor delivered, however many errors of abandoned alternatives it
\* holds.
C14_LeftoverIndependent == [][LeftoverCheck]_vars

\* Tokens were left over after a successful parse_main: the sink holds the
\* one diagnostic, which is not the best tracked error.
C14_Witness ==
    /\ pc = "done"
    /\ result.status = "returned"
    /\ result.node # None
    /\ index < Len(tokens)
    /\ best_error # None
    /\ Len(logged) > 1
    /\ error_collector = <<ParserError("unexpected token", index, "AT")>>
    /\ error_collector[1] # best_error


(***************************************************************************)
(* Calls, unary prefix operators and binary operators.                     *)
(***************************************************************************)
Kinds(e) == [p \in 1..Len(e) |-> e[p].kind]

CallOfOne(f, x) == FunctionCallNode(Leaf(f), <<Leaf(x)>>)

\* op f ( x ) with op one of & and *
IsUnaryOfCall ==
    /\ Len(ExprTokens) = 5
    /\ ExprTokens[1].kind \in {"amp", "star"}
    /\ SubSeq(Kinds(ExprTokens), 2, 5)
           = <<"identifier", "open_paren", "identifier", "close_paren">>

\* a op f ( x ) with op a binary operator
IsBinaryOfCall ==
    /\ Len(ExprTokens) = 6
    /\ ExprTokens[1].kind = "identifier"
    /\ ExprTokens[2].kind \in {"plus", "star", "slash", "twoequals",
                              "notequal", "equals"}
    /\ SubSeq(Kinds(ExprTokens), 3, 6)
           = <<"identifier", "open_paren", "identifier", "close_paren">>

CallBindsTighter ==
    pc = "done"
        => LET e == ExprTokens
           IN  /\ IsUnaryOfCall
                    => result
                         = Ok(IF e[1].kind = "amp"
                              THEN AddrOfNode(CallOfOne(e[2], e[4]), e[1])
                              ELSE DerefNode(CallOfOne(e[2], e[4]), e[1]),
                              index + 5)
               /\ IsBinaryOfCall
                    => result
                         = Ok(BinaryOperatorNode(Leaf(e[1]), e[2],
                                                 CallOfOne(e[3], e[5])),
                              index + 6)
               /\ Kinds(e) = <<"identifier", "star", "identifier">>
                    => result
                         = Ok(BinaryOperatorNode(Leaf(e[1]), e[2], Leaf(e[3])),
                              index + 3)
               /\ Kinds(e) = <<"star", "identifier">>
                    => result = Ok(DerefNode(Leaf(e[2]), e[1]), index + 2)

\* op expr or expr op expr on top of the stack
PendingReduce ==
    /\ Len(stack) >= 2
    /\ IsNode(stack[Len(stack)].item)
    /\ IsToken(stack[Len(stack) - 1].item)
    /\ \/ stack[Len(stack) - 1].item.kind \in {"amp", "star"}
       \/ /\ Len(stack) >= 3
          /\ stack[Len(stack) - 1].item.kind
                 \in {"plus", "star", "slash", "twoequals", "notequal",
                      "equals"}
          /\ IsNode(stack[Len(stack) - 2].item)

\* A pending reduce waits while ( is next: the loop shifts the (.
ReduceDeferredForCall ==
    (/\ pc = "expr"
     /\ PendingReduce
     /\ i < Len(tokens)
     /\ tokens[i + 1].kind = "open_paren")
        => /\ stack' = Append(stack, StackItem(tokens[i + 1], 1))
           /\ i' = i + 1

\* C15: a pending unary-prefix reduce and a pending binary reduce both wait
\* while the next token is ( , so & f ( x ) is AddrOf(FunctionCall(f, [x]))
\* and a + f ( x ) is BinaryOperator(+, a, FunctionCall(f, [x])); a * b is
\* BinaryOperator(*, a, b) and a leading * p is Deref(p).
C15_CallBindsTighter == []CallBindsTighter /\ [][ReduceDeferredForCall]_vars

\* & f ( x ) has been parsed.
C15_Witness ==
    /\ pc = "done"
    /\ IsUnaryOfCall
    /\ ExprTokens[1].kind = "amp"
    /\ result.status = "ok"
    /\ result.node.node = "AddrOf"
    /\ result.node.expr.node = "FunctionCall"


(***************************************************************************)
(* The lengths of the stack items of parse_expression.                     *)
(***************************************************************************)
\* The number of source tokens in the subtree of a node.
Span(n) == Len(TokensOf(n))

LengthsAreSpans ==
    \A p \in 1..Len(stack) :
        IF IsToken(stack[p].item) THEN stack[p].length = 1
        ELSE stack[p].length = Span(stack[p].item)

\* C19: at the top of every iteration of the loop the lengths of the stack
\* items sum to i - index, a raw token has length 1 and a node the number
\* of tokens of its subtree; on success the returned index is at most i
\* and at most the number of tokens.
C19_StackLengths ==
    /\ pc \in {"expr", "expr_end"}
           => /\ SumLengths(stack) = i - index
              /\ LengthsAreSpans
              /\ i <= Len(tokens)
    /\ (pc = "done" /\ result.status = "ok")
           => /\ result.index = index + stack[1].length
              /\ result.index <= i
              /\ result.index <= Len(tokens)

\* At the top of an iteration: a node of three or more tokens below a raw
\* token.
C19_Witness ==
    /\ pc = "expr"
    /\ Len(stack) >= 2
    /\ IsNode(stack[1].item)
    /\ stack[1].length >= 3
    /\ stack[1].item.node \in {"AddrOf", "Deref", "FunctionCall"}
    /\ IsToken(stack[Len(stack)].item)
    /\ i - index = stack[1].length + Len(stack) - 1


(***************************************************************************)
(* The failures of parse_declaration.                                      *)
(***************************************************************************)
KindAt(k) == IF k < Len(tokens) THEN tokens[k + 1].kind ELSE "end"

\* The index after the optional sign keyword.
SignEnd == IF KindAt(index) \in {"signed_kw", "unsigned_kw"}
           THEN index + 1 ELSE index

RECURSIVE StarsEnd(_)
StarsEnd(k) == IF KindAt(k) = "star" THEN StarsEnd(k + 1) ELSE k

\* The index after the last * (after the type keyword when there is none).
PointerEnd == StarsEnd(SignEnd + 1)

CompleteSuffix(k) ==
    /\ KindAt(k) = "open_sq_brack"
    /\ KindAt(k + 1) = "number"
    /\ KindAt(k + 2) = "close_sq_brack"

\* The index where the semicolon is due.
SemicolonDue ==
    IF CompleteSuffix(PointerEnd + 1) THEN PointerEnd + 4 ELSE PointerEnd + 1

MissingType == KindAt(SignEnd) \notin TypeKinds

MissingIdentifier == ~MissingType /\ KindAt(PointerEnd) # "identifier"

MissingSemicolon ==
    ~MissingType /\ ~MissingIdentifier /\ KindAt(SemicolonDue) # "semicolon"

\* C18: parse_declaration fails at the first missing mandatory piece: with
\* "expected type name" (GOT) at the index after the optional sign keyword,
\* with "expected identifier" (AFTER) at the index after the last *, with
\* "expected semicolon" (AFTER) where the semicolon is due, which is the [
\* of an array suffix that is not complete; and it then returns no
\* Declaration node.
C18_DeclarationErrors ==
    pc = "done"
        => /\ MissingType
                => result = Raise(ParserError("expected type name", SignEnd,
                                              "GOT"))
           /\ MissingIdentifier
                => result = Raise(ParserError("expected identifier",
                                              PointerEnd, "AFTER"))
           /\ MissingSemicolon
                => result = Raise(ParserError("expected semicolon",
                                              SemicolonDue, "AFTER"))
           /\ (/\ MissingSemicolon
               /\ KindAt(PointerEnd + 1) = "open_sq_brack"
               /\ ~CompleteSuffix(PointerEnd + 1))
                => /\ result.err.index = PointerEnd + 1
                   /\ tokens[result.err.index + 1].kind = "open_sq_brack"
           /\ result.status = "ok"
                <=> ~(MissingType \/ MissingIdentifier \/ MissingSemicolon)
           /\ result.status = "ParserError"
                => /\ result.err.kind \in {"GOT", "AFTER"}
                   /\ raised[Len(raised)] = result.err

\* T * v [ 5 ; has been tried: the error is at the [ .
C18_Witness ==
    /\ pc = "done"
    /\ MissingSemicolon
    /\ KindAt(PointerEnd - 1) = "star"
    /\ KindAt(PointerEnd + 1) = "open_sq_brack"
    /\ KindAt(PointerEnd + 2) = "number"
    /\ result.status = "ParserError"
    /\ result.err.message = "expected semicolon"
    /\ result.err.index = PointerEnd + 1


(***************************************************************************)
(* The item loop of parse_compound_statement.                              *)
(***************************************************************************)
EmptyTracker == Tracker(None, <<>>, <<>>)

\* The items accumulated before the iteration looked at.
Before == <<ReturnNode(NumberNode(Num("4")), P("return_kw"))>>

Last(s) == s[Len(s)]

\* The iteration of the loop at index k, after a statement attempt with
\* outcome s and, when that failed, a declaration attempt with outcome d.
AfterStatement(k, s, it) ==
    /\ it.status = "continue"
    /\ it.index = s.index
    /\ it.nodes = Append(Before, s.node)

AfterDeclaration(k, s, d, it) ==
    /\ d.tr.logged[Len(s.tr.logged) + 1] = s.err
    /\ IF d.status = "ok"
       THEN /\ it.status = "continue"
            /\ it.index = d.index
            /\ it.nodes = Append(Before, d.node)
            /\ it.tr = d.tr
       ELSE /\ it.status = "break"
            /\ it.index = k
            /\ it.nodes = Before
            /\ Last(it.tr.logged) = d.err
            /\ Last(it.tr.raised) = d.err
            /\ it.tr.best.amount_parsed >= s.err.amount_parsed
            /\ it.tr.best.amount_parsed >= d.err.amount_parsed

\* The declaration attempt made at index k alone: where it ends does not
\* depend on the statement attempt before it.
SameDeclaration(k, d) ==
    \A d0 \in {parse_declaration(tokens, k, EmptyTracker)} :
        /\ d0.status = d.status
        /\ d0.status = "ok" => d0.index = d.index /\ d0.node = d.node
        /\ d0.status = "ParserError" => d0.err = d.err

IterationAt(k) ==
    \A s \in {parse_statement(tokens, k, EmptyTracker)},
       it \in {CompoundIter(tokens, k, Before, EmptyTracker)} :
        CASE s.status = "ok" -> AfterStatement(k, s, it)
          [] s.status = "IndexError" -> it.status = "IndexError"
          [] s.status = "ParserError" ->
                \A d \in {parse_declaration(tokens, k, LogT(s.tr, s.err))} :
                    AfterDeclaration(k, s, d, it) /\ SameDeclaration(k, d)

\* The compound statement that opens at index k: the closing brace is
\* required where the loop stopped, which is where both attempts fail.
ClosingBraceAt(k) ==
    \A l \in {CompoundLoop(tokens, k + 1, <<>>, EmptyTracker)},
       c \in {parse_compound_statement(tokens, k, EmptyTracker)} :
        l.status = "break"
            => /\ CompoundIter(tokens, l.index, l.nodes, l.tr).status = "break"
               /\ IF KindAt(l.index) = "close_brack"
                  THEN /\ c.status = "ok"
                       /\ c.index = l.index + 1
                       /\ c.node = CompoundNode(l.nodes)
                  ELSE /\ c.status = "ParserError"
                       /\ c.err = ParserError("expected '}'", l.index, "GOT")

\* C17: in parse_compound_statement a failed attempt changes nothing but
\* best_error: after a failed statement attempt the declaration attempt
\* starts at the same index with the same items; the loop stops exactly
\* when both attempts fail at one index, both failures logged, and the
\* closing brace is then required at that index.
C17_FailedAttemptFrame ==
    pc = "done"
        => /\ \A k \in 0..Len(tokens) : IterationAt(k)
           /\ \A k \in 0..(Len(tokens) - 1) :
                  KindAt(k) = "open_brack" => ClosingBraceAt(k)

\* A program has been parsed whose second item is a declaration: at its
\* index the statement attempt failed and the declaration attempt, made at
\* the same index, succeeded.
C17_Witness ==
    /\ pc = "done"
    /\ result.status = "returned"
    /\ result.node # None
    /\ Len(result.node.body.items) = 2
    /\ result.node.body.items[2].node = "Declaration"
    /\ result.node.body.items[1].node = "Return"
    /\ parse_statement(tokens, 8, EmptyTracker).status = "ParserError"
    /\ CompoundIter(tokens, 8, Before, EmptyTracker).index = 11


(***************************************************************************)
(* Termination.                                                            *)
(***************************************************************************)
RECURSIVE RawTokens(_)
RawTokens(stk) ==
    IF Len(stk) = 0 THEN 0
    ELSE (IF IsToken(stk[1].item) THEN 1 ELSE 0) + RawTokens(Tail(stk))

\* An iteration of the loop of parse_expression that does not leave it.
LoopIteration ==
    (pc = "expr" /\ pc' = "expr")
        => \/ /\ i' = i + 1
              /\ i' <= Len(tokens)
              /\ stack' = Append(stack, StackItem(tokens[i'], 1))
           \/ /\ i' = i
              /\ RawTokens(stack') < RawTokens(stack)
              /\ Len(stack') <= Len(stack)

\* The loop has done at most two iterations for each token.
LoopBound ==
    pc \in {"expr", "expr_end"}
        => /\ i <= Len(tokens)
           /\ RawTokens(stack) <= i - index

\* A successful statement or declaration attempt at k ends past k.
AttemptsAdvance ==
    \A k \in 0..Len(tokens) :
        /\ \A s \in {parse_statement(tokens, k, EmptyTracker)} :
               s.status = "ok" => s.index > k /\ s.index <= Len(tokens)
        /\ \A d \in {parse_declaration(tokens, k, EmptyTracker)} :
               d.status = "ok" => d.index > k /\ d.index <= Len(tokens)

\* The item loop of the compound statement that opens at index k made no
\* more iterations than it passed tokens.
ItemLoopBound ==
    \A k \in 0..(Len(tokens) - 1) :
        KindAt(k) = "open_brack"
            => \A l \in {CompoundLoop(tokens, k + 1, <<>>, EmptyTracker)} :
                   l.status = "break"
                       => /\ Len(l.nodes) <= l.index - (k + 1)
                          /\ l.index <= Len(tokens)

\* Every run that has not ended can take a step.
NotStuck == pc # "done" => ENABLED NextParser

Terminates ==
    /\ LoopBound
    /\ NotStuck
    /\ pc = "done" => AttemptsAdvance /\ ItemLoopBound

\* C16: parse ends on every token sequence: every iteration of the loop of
\* parse_expression that stays in the loop either shifts one token, moving
\* i by one and not past the end, or reduces and leaves fewer raw tokens on
\* the stack; every successful statement or declaration attempt moves the
\* index forward, so the item loop makes at most as many iterations as
\* there are tokens.
C16_Terminates == []Terminates /\ [][LoopIteration]_vars

\* parse has returned a program of two items: the item loop ran three
\* times, and an expression of three operators was reduced on the way.
C16_Witness ==
    /\ pc = "done"
    /\ result.status = "returned"
    /\ result.node # None
    /\ Len(result.node.body.items) = 2
    /\ result.node.body.items[2].node = "ExprStatement"
    /\ result.node.body.items[2].expr.node = "BinaryOperator"
    /\ index = Len(tokens)


====
